---- MODULE Spec2Model ----
(***************************************************************************)
(* A model of hypernetx/algorithms/homology_mod2.py: homology over the     *)
(* two-element field of the simplicial complex of a hypergraph.            *)
(*                                                                         *)
(* numpy arrays are modelled as the objects they are: an ndarray is a      *)
(* reference to a buffer on a heap, possibly read through a transposing    *)
(* view; copy.deepcopy and copy.copy allocate a new buffer, .transpose()   *)
(* returns a view of the same buffer, and N[i] = ... writes through the    *)
(* view into the buffer.  A matrix value is a record [nr, nc, e], e the    *)
(* sequence of its rows; Ent(A, i, j) is the entry of row i and column j   *)
(* and Row(A, i) is row i, indices from 0 as in the code.                  *)
(*                                                                         *)
(* An operator that models code working on the heap takes the heap h (or a *)
(* record x = [h, ...] holding it) and returns a record holding the heap   *)
(* after it: [h, a] with the ndarray returned, [h, out] with the list of   *)
(* ndarrays returned, [h, f] with the local variables of the function.     *)
(***************************************************************************)
EXTENDS Integers, Sequences, FiniteSets, TLC

VARIABLES
    heap,    \* the ndarray buffers alive: buffer id -> matrix value
    args,    \* the arguments of the call being run
    frame,   \* the local variables of the function being run
    pc,      \* the position in the function being run
    result,  \* what the call returned
    store    \* the external persistence sink (the pickled log file)

vars == <<heap, args, frame, pc, result, store>>

(***************************************************************************)
(* Bounds of the model.                                                    *)
(***************************************************************************)
\* the matrices a caller hands to the elementary operations have at most
\* OpsRows rows
OpsRows == 2
\* ... and at most OpsCols columns
OpsCols == 2
\* the matrices handed to the two reductions have at most MaxRows rows
MaxRows == 3
\* ... and at most MaxCols columns
MaxCols == 2

\* homology_basis: the (k-1)-chains, k-chains and (k+1)-chains of its matrices
HomRows == 1
HomChains == 3
HomCols == 1

\* hypergraph_homology_basis: the vertices and edges of its hypergraph
MaxVertices == 3
MaxEdges == 3

(***************************************************************************)
(* Values.                                                                 *)
(***************************************************************************)
\* Python's None where an int is expected (the default of s2)
None == -1

Bit == {0, 1}

Min(a, b) == IF a <= b THEN a ELSE b

\* the least member of a finite nonempty set of integers
Least(S) == CHOOSE x \in S : \A y \in S : x <= y

\* a sequence holding the members of a finite set of integers in ascending
\* order: what a comprehension over range(...) yields
RECURSIVE Ascending(_)
Ascending(S) ==
    IF S = {} THEN << >> ELSE <<Least(S)>> \o Ascending(S \ {Least(S)})

\* an nr x nc matrix value from the sequence of its rows
MatOf(nr, nc, rows) == [nr |-> nr, nc |-> nc, e |-> rows]

\* M[i]
Row(A, i) == A.e[i + 1]

\* M[i, j]
Ent(A, i, j) == A.e[i + 1][j + 1]

\* np.zeros((m, n), dtype=int)
zeros(m, n) == MatOf(m, n, [i \in 1..m |-> [j \in 1..n |-> 0]])

\* np.eye(n, dtype=int)
eye(n) == MatOf(n, n, [i \in 1..n |-> [j \in 1..n |-> IF i = j THEN 1 ELSE 0]])

\* the value read through a transposing view
Transpose(A) == MatOf(A.nc, A.nr, [i \in 1..A.nc |-> [j \in 1..A.nr |-> A.e[j][i]]])

\* every 0/1 matrix of shape m x n
MatricesOfShape(m, n) == { MatOf(m, n, rows) : rows \in [1..m -> [1..n -> Bit]] }

\* every 0/1 matrix with at most m rows and at most n columns
MatricesUpTo(m, n) == UNION { MatricesOfShape(a, b) : a \in 0..m, b \in 0..n }

\* 1 * np.logical_xor(x, y) on two entries
xor(x, y) == IF (x # 0) # (y # 0) THEN 1 ELSE 0

\* line 234 with logical_or for logical_xor
OrRows(V, i, j) ==
    [c \in 1..V.nc |-> IF Ent(V, i, c - 1) # 0 \/ Ent(V, j, c - 1) # 0 THEN 1 ELSE 0]

\* 1 * np.logical_xor(N[i], N[j])
XorRows(V, i, j) == [c \in 1..V.nc |-> xor(Ent(V, i, c - 1), Ent(V, j, c - 1))]

(***************************************************************************)
(* The heap of ndarray buffers.  An ndarray is [buf, T]: the buffer it     *)
(* reads and whether it reads it transposed.                               *)
(***************************************************************************)
\* the id of a buffer not yet allocated
Fresh(h) == Least((0..Cardinality(DOMAIN h)) \ DOMAIN h)

\* the matrix an ndarray reads
Val(h, a) == IF a.T THEN Transpose(h[a.buf]) ELSE h[a.buf]

\* the values that the ndarrays arrs read
RECURSIVE ValuesOf(_, _)
ValuesOf(h, arrs) ==
    IF arrs = << >> THEN << >> ELSE <<Val(h, Head(arrs))>> \o ValuesOf(h, Tail(arrs))

\* the buffer b allocated, holding v
Alloc(h, b, v) == [h |-> h @@ (b :> v), a |-> [buf |-> b, T |-> FALSE]]

\* a new ndarray holding the value v
NewArray(h, v) == Alloc(h, Fresh(h), v)

\* new ndarrays holding the values vals, in this order
RECURSIVE NewArrays(_, _, _)
NewArrays(h, vals, output) ==
    IF vals = << >> THEN [h |-> h, out |-> output]
    ELSE NewArrays(h @@ (Fresh(h) :> Head(vals)), Tail(vals),
                   Append(output, [buf |-> Fresh(h), T |-> FALSE]))

\* copy.deepcopy(a) / copy.copy(a) of an ndarray: a new buffer
deepcopy(h, a) == NewArray(h, Val(h, a))

\* a.transpose(): a view of the same buffer
transpose(a) == [buf |-> a.buf, T |-> ~a.T]

\* r.transpose() of the ndarray a call returned
Transposed(r) == [h |-> r.h, a |-> transpose(r.a)]

\* the buffer B with row i (column i when written through a transposing
\* view) replaced by row
Written(B, viaT, i, row) ==
    MatOf(B.nr, B.nc,
          [r \in 1..B.nr |-> [c \in 1..B.nc |->
              IF viaT THEN (IF c = i + 1 THEN row[r] ELSE B.e[r][c])
                      ELSE (IF r = i + 1 THEN row[c] ELSE B.e[r][c])]])

\* N[i] = row: written through the view into the buffer
SetRow(h, a, i, row) == [h EXCEPT ![a.buf] = Written(h[a.buf], a.T, i, row)]

\* reference counting: the buffers no variable refers to are freed
Collect(h, roots) == [b \in { a.buf : a \in roots } \cap DOMAIN h |-> h[b]]

(***************************************************************************)
(* Elementary operations (lines 133-256) and their pairings (395-411).     *)
(***************************************************************************)
\* lines 148-151, c.a the copy N made at line 147
rswap_N(c, i, j) ==
    [h |-> SetRow(SetRow(c.h, c.a, i, Row(Val(c.h, c.a), j)),
                  c.a, j, Row(Val(c.h, c.a), i)),
     a |-> c.a]

_rswap(h, i, j, S) == rswap_N(deepcopy(h, S), i, j)

_cswap(h, i, j, S) == Transposed(_rswap(h, i, j, transpose(S)))

\* swap_rows(i, j, *args): the loop of lines 190-191 from the heap h on
RECURSIVE swap_rows_loop(_, _, _, _, _)
swap_rows_append(r, i, j, rest, output) ==
    swap_rows_loop(r.h, i, j, rest, Append(output, r.a))

swap_rows_loop(h, i, j, arrs, output) ==
    IF arrs = << >> THEN [h |-> h, out |-> output]
    ELSE swap_rows_append(_rswap(h, i, j, Head(arrs)), i, j, Tail(arrs), output)

swap_rows(h, i, j, arrs) == swap_rows_loop(h, i, j, arrs, << >>)

RECURSIVE swap_columns_loop(_, _, _, _, _)
swap_columns_append(r, i, j, rest, output) ==
    swap_columns_loop(r.h, i, j, rest, Append(output, r.a))

swap_columns_loop(h, i, j, arrs, output) ==
    IF arrs = << >> THEN [h |-> h, out |-> output]
    ELSE swap_columns_append(_cswap(h, i, j, Head(arrs)), i, j, Tail(arrs), output)

swap_columns(h, i, j, arrs) == swap_columns_loop(h, i, j, arrs, << >>)

\* line 234, c.a the copy N made at line 233
add_to_row_N(c, i, j) ==
    [h |-> SetRow(c.h, c.a, i, XorRows(Val(c.h, c.a), i, j)), a |-> c.a]

\* lines 233-235 without the copy: N = M
add_to_row_in_place(h, M, i, j) == add_to_row_N([h |-> h, a |-> M], i, j)

add_to_row(h, M, i, j) == add_to_row_N(deepcopy(h, M), i, j)

add_to_column(h, M, i, j) == Transposed(add_to_row(h, transpose(M), i, j))

\* the pair (first, r.a)
PairWith(first, r) == [h |-> r.h, out |-> <<first, r.a>>]

_sr(h, i, j, M, L) == swap_rows(h, i, j, <<M, L>>)

_sc(h, i, j, M, R) == swap_columns(h, i, j, <<M, R>>)

\* the second component of the pair of line 407, a what the first returned
ar_second(a, i, j, L) == PairWith(a.a, add_to_row(a.h, L, i, j))

_ar(h, i, j, M, L) == ar_second(add_to_row(h, M, i, j), i, j, L)

\* the second component of the pair of line 411
ac_second(a, i, j, R) == PairWith(a.a, add_to_column(a.h, R, i, j))

_ac(h, i, j, M, R) == ac_second(add_to_column(h, M, i, j), i, j, R)

(***************************************************************************)
(* Pivot search (lines 414-446).  M is a matrix value; the result is the   *)
(* tuple <<r, c>>, or the empty tuple for None.                            *)
(***************************************************************************)
\* the first position of ones in the order of the loops of lines 442-443:
\* smallest column, then smallest row
FirstColumnMajor(ones) ==
    IF ones = {} THEN << >>
    ELSE CHOOSE p \in ones :
             \A q \in ones : p[2] < q[2] \/ (p[2] = q[2] /\ p[1] <= q[1])

\* lines 440-441
pivot_start_column(s1, s2) == IF s2 = None \/ s2 = 0 THEN s1 ELSE s2

_get_next_pivot(M, s1, s2) ==
    FirstColumnMajor({ p \in (s1..(M.nr - 1)) \X (pivot_start_column(s1, s2)..(M.nc - 1)) :
                         Ent(M, p[1], p[2]) # 0 })

(***************************************************************************)
(* Assignments to the locals S, L, R, Linv of a reduction: f the locals,   *)
(* r what the call on the right-hand side returned.                        *)
(***************************************************************************)
\* S, L = r
AssignSL(f, r) == [h |-> r.h, f |-> [f EXCEPT !.S = r.out[1], !.L = r.out[2]]]

\* S, R = r
AssignSR(f, r) == [h |-> r.h, f |-> [f EXCEPT !.S = r.out[1], !.R = r.out[2]]]

\* Linv = r
AssignLinv(f, r) == [h |-> r.h, f |-> [f EXCEPT !.Linv = r.a]]

\* Linv = r[0]
AssignLinv0(f, r) == [h |-> r.h, f |-> [f EXCEPT !.Linv = r.out[1]]]

(***************************************************************************)
(* smith_normal_form_mod2 (lines 449-508).  x = [h, f], the locals f: M,   *)
(* S, L, R, Linv (ndarrays), dimL, dimR, s.                                *)
(***************************************************************************)
\* the locals after lines 480-486, r the four arrays allocated
snf_locals(M, V, r) ==
    [h |-> r.h,
     f |-> [M |-> M, S |-> r.out[1], L |-> r.out[2], R |-> r.out[3], Linv |-> r.out[4],
            dimL |-> V.nr, dimR |-> V.nc, s |-> 0]]

\* lines 480-486
snf_enter(h, M) ==
    snf_locals(M, Val(h, M),
               NewArrays(h, <<Val(h, M), eye(Val(h, M).nr), eye(Val(h, M).nc),
                              eye(Val(h, M).nr)>>, << >>))

\* line 489
snf_pivot(x) == _get_next_pivot(Val(x.h, x.f.S), x.f.s, None)

\* line 497
snf_swap_linv(x, rdx) == AssignLinv0(x.f, swap_columns(x.h, rdx, x.f.s, <<x.f.Linv>>))

\* lines 495-497
snf_swap_rows(x, rdx) ==
    IF rdx > x.f.s
    THEN snf_swap_linv(AssignSL(x.f, _sr(x.h, x.f.s, rdx, x.f.S, x.f.L)), rdx)
    ELSE x

\* lines 498-499
snf_swap_columns(x, cdx) ==
    IF cdx > x.f.s THEN AssignSR(x.f, _sc(x.h, x.f.s, cdx, x.f.S, x.f.R)) ELSE x

\* line 501
snf_row_indices(x) ==
    Ascending({ idx \in (x.f.s + 1)..(x.f.dimL - 1) : Ent(Val(x.h, x.f.S), idx, x.f.s) = 1 })

\* line 504 with the two column indices exchanged
snf_add_linv_exchanged(x, rdx) ==
    AssignLinv(x.f, add_to_column(x.h, x.f.Linv, rdx, x.f.s))

\* line 504
snf_add_linv(x, rdx) == AssignLinv(x.f, add_to_column(x.h, x.f.Linv, x.f.s, rdx))

\* lines 503-504
snf_add_row(x, rdx) ==
    snf_add_linv(AssignSL(x.f, _ar(x.h, rdx, x.f.s, x.f.S, x.f.L)), rdx)

\* lines 502-504
RECURSIVE snf_rows(_, _)
snf_rows(x, idxs) ==
    IF idxs = << >> THEN x ELSE snf_rows(snf_add_row(x, Head(idxs)), Tail(idxs))

\* lines 501-504
snf_eliminate_rows(x) == snf_rows(x, snf_row_indices(x))

\* line 505 with the range starting one column late
snf_column_indices_late(x) ==
    Ascending({ jdx \in (x.f.s + 2)..(x.f.dimR - 1) : Ent(Val(x.h, x.f.S), x.f.s, jdx) = 1 })

\* line 505
snf_column_indices(x) ==
    Ascending({ jdx \in (x.f.s + 1)..(x.f.dimR - 1) : Ent(Val(x.h, x.f.S), x.f.s, jdx) = 1 })

\* line 507
snf_add_column(x, cdx) == AssignSR(x.f, _ac(x.h, cdx, x.f.s, x.f.S, x.f.R))

\* lines 506-507
RECURSIVE snf_columns(_, _)
snf_columns(x, idxs) ==
    IF idxs = << >> THEN x ELSE snf_columns(snf_add_column(x, Head(idxs)), Tail(idxs))

\* lines 505-507
snf_eliminate_columns(x) == snf_columns(x, snf_column_indices(x))

\* line 487: the next s
snf_next_s(x) == [h |-> x.h, f |-> [x.f EXCEPT !.s = x.f.s + 1]]

\* one pass of the body of the loop, lines 493-507, the pivot found
snf_body(x, pivot) ==
    snf_next_s(snf_eliminate_columns(snf_eliminate_rows(
        snf_swap_columns(snf_swap_rows(x, pivot[1]), pivot[2]))))

\* the loop goes on: s is in range(min(dimL, dimR)) and a pivot is found
snf_continues(x) == x.f.s < Min(x.f.dimL, x.f.dimR) /\ snf_pivot(x) # << >>

\* the loop of lines 487-507, run to its end
RECURSIVE snf_loop(_)
snf_loop(x) == IF snf_continues(x) THEN snf_loop(snf_body(x, snf_pivot(x))) ELSE x

\* the ndarrays the locals of the reduction refer to
snf_roots(f) == {f.M, f.S, f.L, f.R, f.Linv}

\* the ndarrays the buffers of h hold
Held(h) == { [buf |-> b, T |-> FALSE] : b \in DOMAIN h }

\* line 508: the tuple (L, R, S, Linv), the locals freed; h0 the caller's heap
snf_return(h0, x) ==
    [h |-> Collect(x.h, Held(h0) \cup {x.f.L, x.f.R, x.f.S, x.f.Linv}),
     out |-> <<x.f.L, x.f.R, x.f.S, x.f.Linv>>]

\* the whole call
smith_normal_form_mod2(h, M) == snf_return(h, snf_loop(snf_enter(h, M)))

(***************************************************************************)
(* reduced_row_echelon_form_mod2 (lines 511-556).  x = [h, f], the locals  *)
(* f: M, S, L, Linv (ndarrays), dimL, dimR, s1, s2.                        *)
(***************************************************************************)
\* the locals after lines 527-535, r the three arrays allocated
rref_locals(M, V, r) ==
    [h |-> r.h,
     f |-> [M |-> M, S |-> r.out[1], Linv |-> r.out[2], L |-> r.out[3],
            dimL |-> V.nr, dimR |-> V.nc, s1 |-> 0, s2 |-> 0]]

\* lines 527-535
rref_enter(h, M) ==
    rref_locals(M, Val(h, M),
                NewArrays(h, <<Val(h, M), eye(Val(h, M).nr), eye(Val(h, M).nr)>>, << >>))

\* line 539
rref_pivot(x) == _get_next_pivot(Val(x.h, x.f.S), x.f.s1, x.f.s2)

\* line 548
rref_swap_linv(x, rdx) == AssignLinv0(x.f, swap_columns(x.h, rdx, x.f.s1, <<x.f.Linv>>))

\* lines 545-548
rref_swap_rows(x, rdx) ==
    IF rdx > x.f.s1
    THEN rref_swap_linv(AssignSL(x.f, _sr(x.h, x.f.s1, rdx, x.f.S, x.f.L)), rdx)
    ELSE x

\* line 550 with only the rows below the pivot
rref_row_indices_below(x, cdx) ==
    Ascending({ idx \in (x.f.s1 + 1)..(x.f.dimL - 1) : Ent(Val(x.h, x.f.S), idx, cdx) = 1 })

\* line 550
rref_row_indices(x, cdx) ==
    Ascending({ idx \in 0..(x.f.dimL - 1) :
                  idx # x.f.s1 /\ Ent(Val(x.h, x.f.S), idx, cdx) = 1 })

\* line 553
rref_add_linv(x, idx) == AssignLinv(x.f, add_to_column(x.h, x.f.Linv, x.f.s1, idx))

\* lines 552-553
rref_add_row(x, idx) ==
    rref_add_linv(AssignSL(x.f, _ar(x.h, idx, x.f.s1, x.f.S, x.f.L)), idx)

\* lines 551-553
RECURSIVE rref_rows(_, _)
rref_rows(x, idxs) ==
    IF idxs = << >> THEN x ELSE rref_rows(rref_add_row(x, Head(idxs)), Tail(idxs))

\* lines 550-553
rref_eliminate(x, cdx) == rref_rows(x, rref_row_indices(x, cdx))

\* line 554
rref_advance(x, cdx) ==
    [h |-> x.h, f |-> [x.f EXCEPT !.s1 = x.f.s1 + 1, !.s2 = cdx + 1]]

\* one pass of the else branch of the loop, lines 544-554, the pivot found
rref_body(x, pivot) ==
    rref_advance(rref_eliminate(rref_swap_rows(x, pivot[1]), pivot[2]), pivot[2])

\* the loop goes on: the condition of the while of line 536 holds and a
\* pivot is found
rref_continues(x) ==
    x.f.s2 <= x.f.dimR /\ x.f.s1 <= x.f.dimL /\ rref_pivot(x) # << >>

\* the loop of lines 536-554, run to its end
RECURSIVE rref_loop(_)
rref_loop(x) == IF rref_continues(x) THEN rref_loop(rref_body(x, rref_pivot(x))) ELSE x

\* the ndarrays the locals of the row reduction refer to
rref_roots(f) == {f.M, f.S, f.L, f.Linv}

\* lines 542, 556: the tuple (L, S, Linv), the locals freed
rref_return(h0, x) ==
    [h |-> Collect(x.h, Held(h0) \cup {x.f.L, x.f.S, x.f.Linv}),
     out |-> <<x.f.L, x.f.S, x.f.Linv>>]

\* the whole call
reduced_row_echelon_form_mod2(h, M) == rref_return(h, rref_loop(rref_enter(h, M)))

(***************************************************************************)
(* Boundary Builder (lines 42-130).  A hypergraph is the set of its edges, *)
(* an edge the set of its vertices; a chain is the ascending sequence of   *)
(* its vertices.  A call that raises returns [raise |-> the exception].    *)
(***************************************************************************)
Raise(exc) == [raise |-> exc]

Raised(v) == "raise" \in DOMAIN v

StrictlyIncreasing(c) == \A i \in 1..(Len(c) - 1) : c[i] < c[i + 1]

\* set(it.combinations(sorted(e), m))
Combinations(e, m) == { c \in [1..m -> e] : StrictlyIncreasing(c) }

\* lines 72-75 for the edge e
EdgeChains(e, k) ==
    IF Cardinality(e) = k + 1 THEN {Ascending(e)}
    ELSE IF Cardinality(e) > k + 1 THEN Combinations(e, k + 1)
    ELSE {}

\* the order of tuples of one length
LexLess(c, d) == \E i \in 1..Len(c) : c[i] < d[i] /\ \A j \in 1..(i - 1) : c[j] = d[j]

LexLeast(S) == CHOOSE c \in S : \A d \in S : d = c \/ LexLess(c, d)

\* sorted(list(kchains))
RECURSIVE Sorted(_)
Sorted(S) == IF S = {} THEN << >> ELSE <<LexLeast(S)>> \o Sorted(S \ {LexLeast(S)})

\* line 73 alone: only the edges of size k + 1, no faces of larger edges
kchainbasis_toplexes(h, k) == Sorted({ Ascending(e) : e \in { d \in h : Cardinality(d) = k + 1 } })

kchainbasis(h, k) == Sorted(UNION { EdgeChains(e, k) : e \in h })

\* the members of the sequence list picked at the positions idxs (from 1)
Picked(list, idxs) == [i \in 1..Len(idxs) |-> list[idxs[i]]]

\* the positions (from 1) of the ones of vec
OnesOf(vec) == Ascending({ i \in 1..Len(vec) : vec[i] = 1 })

\* lines 97-102; arr a sequence of vectors
interpret(Ck, arr) ==
    IF \E v \in 1..Len(arr) : Len(Ck) # Len(arr[v]) THEN Raise("HyperNetXError")
    ELSE [v \in 1..Len(arr) |-> Picked(Ck, OnesOf(arr[v]))]

\* line 126: cell[:idx] + cell[idx + 1:]
Face(cell, idx) == SubSeq(cell, 1, idx) \o SubSeq(cell, idx + 2, Len(cell))

Has(list, x) == \E i \in 1..Len(list) : list[i] = x

\* list.index(x), x in the list
IndexOf(list, x) == Least({ i \in 1..Len(list) : list[i] = x }) - 1

\* lines 123-130: the face of a cell missing from km1basis makes .index raise
bkMatrix(km1basis, kbasis) ==
    IF \E c \in 1..Len(kbasis) : \E idx \in 0..(Len(kbasis[c]) - 1) :
           ~Has(km1basis, Face(kbasis[c], idx))
    THEN Raise("ValueError")
    ELSE MatOf(Len(km1basis), Len(kbasis),
               [r \in 1..Len(km1basis) |-> [c \in 1..Len(kbasis) |->
                   IF \E idx \in 0..(Len(kbasis[c]) - 1) :
                          IndexOf(km1basis, Face(kbasis[c], idx)) = r - 1
                   THEN 1 ELSE 0]])

(***************************************************************************)
(* Field Matrix Algebra used by the extraction (lines 259-353), on values. *)
(***************************************************************************)
RECURSIVE SumSeq(_)
SumSeq(s) == IF s = << >> THEN 0 ELSE Head(s) + SumSeq(Tail(s))

\* np.sum(V) of a matrix
np_sum(V) == SumSeq([r \in 1..V.nr |-> SumSeq(V.e[r])])

\* np.any(vec)
np_any(vec) == \E i \in 1..Len(vec) : vec[i] # 0

\* line 284, the two arrays of one length
logical_dot(ar1, ar2) ==
    SumSeq([i \in 1..Len(ar1) |-> IF ar1[i] # 0 /\ ar2[i] # 0 THEN 1 ELSE 0]) % 2

\* lines 311-324
logical_matmul(mat1, mat2) ==
    IF mat1.nc # mat2.nr THEN Raise("HyperNetXError")
    ELSE MatOf(mat1.nr, mat2.nc,
               [i \in 1..mat1.nr |-> [j \in 1..mat2.nc |->
                   IF np_any(mat1.e[i]) THEN logical_dot(mat1.e[i], Transpose(mat2).e[j])
                   ELSE 0]])

\* lines 350-353: the product of P and the matrices of rest, left to right
RECURSIVE matmul_fold(_, _)
matmul_fold(P, rest) ==
    IF rest = << >> \/ Raised(P) THEN P
    ELSE matmul_fold(logical_matmul(P, Head(rest)), Tail(rest))

\* matmulreduce(arr), arr not empty, reverse=False
matmulreduce(arr) == matmul_fold(Head(arr), Tail(arr))

\* V[:, lo:]
ColumnsFrom(V, lo) ==
    MatOf(V.nr, V.nc - lo, [r \in 1..V.nr |-> [c \in 1..(V.nc - lo) |-> V.e[r][c + lo]]])

\* V[:, :hi]
ColumnsTo(V, hi) == MatOf(V.nr, hi, [r \in 1..V.nr |-> [c \in 1..hi |-> V.e[r][c]]])

\* V[lo:, :]
RowsFrom(V, lo) ==
    MatOf(V.nr - lo, V.nc, [r \in 1..(V.nr - lo) |-> [c \in 1..V.nc |-> V.e[r + lo][c]]])

(***************************************************************************)
(* coset (lines 559-599) with shortest=True or False.  The list returned   *)
(* is [none |-> FALSE, list |-> ...]; None is [none |-> TRUE].             *)
(***************************************************************************)
NoneReturned == [none |-> TRUE]

ListReturned(list) == [none |-> FALSE, list |-> list]

RECURSIVE Pow2(_)
Pow2(n) == IF n = 0 THEN 1 ELSE 2 * Pow2(n - 1)

\* alpha[idx] of the a-th tuple (from 0) of it.product([0, 1], repeat=dim)
Alpha(a, idx, dim) == (a \div Pow2(dim - 1 - idx)) % 2

\* line 590: the XOR of bs and the columns of im2 that alpha selects
CosetElement(im2, bs, a) ==
    [c \in 1..Len(bs) |->
        (SumSeq([idx \in 1..im2.nc |->
                    IF Alpha(a, idx - 1, im2.nc) * im2.e[c][idx] # 0 THEN 1 ELSE 0])
         + (IF bs[c] # 0 THEN 1 ELSE 0)) % 2]

\* lines 591-598 for the element temp; acc = [coset, sh_len]
coset_keep(acc, temp, shortest) ==
    IF shortest
    THEN IF SumSeq(temp) = acc.sh_len
         THEN [coset |-> Append(acc.coset, temp), sh_len |-> acc.sh_len]
         ELSE IF SumSeq(temp) < acc.sh_len
              THEN [coset |-> <<temp>>, sh_len |-> SumSeq(temp)]
              ELSE acc
    ELSE [coset |-> Append(acc.coset, temp), sh_len |-> acc.sh_len]

\* the loop of lines 589-598 from the a-th tuple on
RECURSIVE coset_scan(_, _, _, _, _)
coset_scan(im2, bs, shortest, a, acc) ==
    IF a = Pow2(im2.nc) THEN acc
    ELSE coset_scan(im2, bs, shortest, a + 1,
                    coset_keep(acc, CosetElement(im2, bs, a), shortest))

coset(im2, bs, shortest) ==
    IF np_sum(im2) = 0 THEN NoneReturned
    ELSE ListReturned(coset_scan(im2, bs, shortest, 0,
                                 [coset |-> << >>, sh_len |-> SumSeq(bs)]).coset)

(***************************************************************************)
(* homology_basis (lines 602-684), on the values of the boundary matrices. *)
(***************************************************************************)
\* the values of the ndarrays a call returned
OutValues(r) == ValuesOf(r.h, r.out)

\* the tuple of values smith_normal_form_mod2 returns for the ndarray M
SnfValues(h, M) == OutValues(smith_normal_form_mod2(h, M))

\* lines 634-635: [snf1 |-> (L1, R1, S1, L1inv), snf2 |-> (L2, R2, S2, L2inv)]
hb_reduce(h, bd) == [snf1 |-> SnfValues(h, bd[1]), snf2 |-> SnfValues(h, bd[2])]

\* lines 645-648 and 640, the ranks rank1 and rank2 of lines 637-638 given
hb_slices(snf1, snf2, rank1, rank2) ==
    [rank1 |-> rank1, rank2 |-> rank2,
     betti1 |-> snf1[3].nc - rank1 - rank2,
     ker1 |-> ColumnsFrom(snf1[2], rank1),
     im2 |-> ColumnsTo(snf2[4], rank2),
     cokernel2 |-> ColumnsFrom(snf2[4], rank2),
     cokproj2 |-> RowsFrom(snf2[1], rank2)]

\* lines 637-648
hb_extract(f) == hb_slices(f.snf1, f.snf2, np_sum(f.snf1[3]), np_sum(f.snf2[3]))

\* the S that reduced_row_echelon_form_mod2 returns for P.transpose()
RrefOfTransposed(P) ==
    OutValues(reduced_row_echelon_form_mod2((0 :> P), [buf |-> 0, T |-> TRUE]))[2]

\* line 655 without its filter: the zero rows are kept
AllRowList(V) == V.e

\* line 655: the rows of V that are not all zero
NonzeroRowList(V) == Picked(V.e, Ascending({ r \in 1..V.nr : np_any(V.e[r]) }))

\* lines 650-655
hb_proj(g) ==
    NonzeroRowList(RrefOfTransposed(matmulreduce(<<g.cokernel2, g.cokproj2, g.ker1>>)))

\* line 661 for every bs of proj
hb_shortest_basis(im2, proj) == [i \in 1..Len(proj) |-> coset(im2, proj[i], TRUE)]

\* line 663, no member of shortest_basis being None
hb_interpret_each(C, shortest_basis) ==
    [i \in 1..Len(shortest_basis) |-> interpret(C, shortest_basis[i].list)]

\* lines 658-665, shortest: iterating over None at line 98 raises TypeError
hb_basis_shortest(C, shortest_basis) ==
    IF C # << >>
    THEN IF \E i \in 1..Len(shortest_basis) : shortest_basis[i].none
         THEN Raise("TypeError")
         ELSE [basis |-> hb_interpret_each(C, shortest_basis), proj |-> shortest_basis]
    ELSE [basis |-> << >>, proj |-> shortest_basis]

\* lines 666-670, not shortest
hb_basis_plain(C, proj) ==
    IF C # << >> THEN [basis |-> interpret(C, proj), proj |-> proj]
    ELSE [basis |-> proj, proj |-> proj]

\* lines 657-670: basis and proj, or what is raised.  C is the list of
\* chains, the empty list standing for None too (both are false at "if C")
hb_basis(C, shortest, im2, proj) ==
    IF shortest THEN hb_basis_shortest(C, hb_shortest_basis(im2, proj))
    ELSE hb_basis_plain(C, proj)

\* f"betti{k}"
BettiKey(k) == "betti" \o ToString(k)

\* pickle.load of the store: what cannot be read is taken for an empty dict
LoadStore(st) == IF st.readable THEN st.dict ELSE << >>

\* logdict.update(entries) and pickle.dump: the entries replace those of the
\* same keys
DumpStore(st, entries) == [readable |-> TRUE, dict |-> entries @@ LoadStore(st)]

\* lines 676-681
hb_log_entries(k, g, b) ==
    ("k" :> k) @@ (BettiKey(k) :> g.betti1) @@ ("ker" :> g.ker1) @@ ("im" :> g.im2)
    @@ ("proj" :> b.proj) @@ ("basis" :> b.basis)

(***************************************************************************)
(* The two reductions as processes: a caller hands a matrix to one of      *)
(* them, which runs pass by pass of its loop and returns.                  *)
(***************************************************************************)
NoFrame == [fn |-> "none"]
NoResult == [kind |-> "none"]
NoStore == [written |-> FALSE]

\* the caller's matrix is the first buffer of the heap
Arg0 == [buf |-> 0, T |-> FALSE]

\* the heap and the locals of the function being run
Running == [h |-> heap, f |-> frame]

\* smith_normal_form_mod2 goes on with the heap and the locals x
SnfGoOn(x) ==
    /\ heap' = Collect(x.h, snf_roots(x.f))
    /\ frame' = x.f

\* reduced_row_echelon_form_mod2 goes on with the heap and the locals x
RrefGoOn(x) ==
    /\ heap' = Collect(x.h, rref_roots(x.f))
    /\ frame' = x.f

InitReduce ==
    /\ \E M \in MatricesUpTo(MaxRows, MaxCols) : heap = (0 :> M)
    /\ \E fn \in {"snf", "rref"} : args = [fn |-> fn, M |-> Arg0]
    /\ frame = NoFrame
    /\ pc = "call"
    /\ result = NoResult
    /\ store = NoStore

\* lines 480-486
SnfEnter ==
    /\ pc = "call" /\ args.fn = "snf"
    /\ SnfGoOn(snf_enter(heap, args.M))
    /\ pc' = "snf_loop"
    /\ UNCHANGED <<args, result, store>>

\* lines 487-507: one pass of the loop
SnfIter ==
    /\ pc = "snf_loop"
    /\ snf_continues(Running)
    /\ SnfGoOn(snf_body(Running, snf_pivot(Running)))
    /\ UNCHANGED <<args, pc, result, store>>

\* lines 487, 490-491, 508: the loop ends (range exhausted, or break) and the
\* function returns
SnfReturn ==
    /\ pc = "snf_loop"
    /\ ~snf_continues(Running)
    /\ result' = [kind |-> "snf", L |-> frame.L, R |-> frame.R, S |-> frame.S,
                  Linv |-> frame.Linv, s |-> frame.s]
    /\ heap' = snf_return(heap, Running).h
    /\ frame' = NoFrame
    /\ pc' = "done"
    /\ UNCHANGED <<args, store>>

\* lines 527-535
RrefEnter ==
    /\ pc = "call" /\ args.fn = "rref"
    /\ RrefGoOn(rref_enter(heap, args.M))
    /\ pc' = "rref_loop"
    /\ UNCHANGED <<args, result, store>>

\* lines 536-554: one pass of the loop
RrefIter ==
    /\ pc = "rref_loop"
    /\ rref_continues(Running)
    /\ RrefGoOn(rref_body(Running, rref_pivot(Running)))
    /\ UNCHANGED <<args, pc, result, store>>

\* lines 536, 541-542, 556: the loop ends and the function returns
RrefReturn ==
    /\ pc = "rref_loop"
    /\ ~rref_continues(Running)
    /\ result' = [kind |-> "rref", L |-> frame.L, S |-> frame.S, Linv |-> frame.Linv,
                  s1 |-> frame.s1, s2 |-> frame.s2]
    /\ heap' = rref_return(heap, Running).h
    /\ frame' = NoFrame
    /\ pc' = "done"
    /\ UNCHANGED <<args, store>>

NextReduce ==
    \/ SnfEnter
    \/ SnfIter
    \/ SnfReturn
    \/ RrefEnter
    \/ RrefIter
    \/ RrefReturn

Spec == InitReduce /\ [][NextReduce]_vars

(***************************************************************************)
(* Linear algebra over the two-element field, as the claims state it.      *)
(***************************************************************************)
\* the sum mod 2 of the products A[i][k] * B[k][j], k < n
RECURSIVE DotMod2(_, _, _, _, _)
DotMod2(A, B, i, j, n) ==
    IF n = 0 THEN 0
    ELSE (DotMod2(A, B, i, j, n - 1) + Ent(A, i, n - 1) * Ent(B, n - 1, j)) % 2

\* the matrix product mod 2
Prod2(A, B) ==
    MatOf(A.nr, B.nc,
          [i \in 1..A.nr |-> [j \in 1..B.nc |-> DotMod2(A, B, i - 1, j - 1, A.nc)]])

\* the number of ones of a 0/1 matrix
NumOnes(A) ==
    Cardinality({ p \in (0..(A.nr - 1)) \X (0..(A.nc - 1)) : Ent(A, p[1], p[2]) = 1 })

IsBinary(A) == \A i \in 0..(A.nr - 1) : \A j \in 0..(A.nc - 1) : Ent(A, i, j) \in Bit

IsDiagonal(A) ==
    \A i \in 0..(A.nr - 1) : \A j \in 0..(A.nc - 1) : i # j => Ent(A, i, j) = 0

\* the rows of A that are not all zero
NonzeroRows(A) == { i \in 0..(A.nr - 1) : \E j \in 0..(A.nc - 1) : Ent(A, i, j) # 0 }

\* the column of the leading entry of a nonzero row
Lead(A, i) == Least({ j \in 0..(A.nc - 1) : Ent(A, i, j) # 0 })

\* reduced row-echelon form: each leading entry is a 1 and alone in its
\* column, the leading columns strictly increase with the row, and the zero
\* rows come last
IsRREF(A) ==
    /\ \A i \in NonzeroRows(A) :
           \A r \in 0..(A.nr - 1) : Ent(A, r, Lead(A, i)) = (IF r = i THEN 1 ELSE 0)
    /\ \A i, k \in NonzeroRows(A) : i < k => Lead(A, i) < Lead(A, k)
    /\ \A i \in NonzeroRows(A) : \A k \in 0..(i - 1) : k \in NonzeroRows(A)

\* the number of pivots of the S that the row reduction r returned
RrefRank(r) == Cardinality(NonzeroRows(Val(r.h, r.out[2])))

(***************************************************************************)
(* Claims about the reductions, under Spec.                                *)
(***************************************************************************)
\* L.M.R = S and L.Linv = Identity for the accumulators v (the locals, or
\* the tuple returned) of a reduction of the matrix M
SnfAccumulatorsAgree(h, M, v) ==
    /\ Prod2(Prod2(Val(h, v.L), Val(h, M)), Val(h, v.R)) = Val(h, v.S)
    /\ Prod2(Val(h, v.L), Val(h, v.Linv)) = eye(Val(h, M).nr)

\* C1: during smith_normal_form_mod2(M), for every 0/1 matrix M, L.M.R = S
\* and L.Linv = Identity (mod 2) hold when the loop starts, at the end of
\* every pass of the loop, and on return.
C1_SnfInvariant ==
    /\ pc = "snf_loop" => SnfAccumulatorsAgree(heap, args.M, frame)
    /\ (pc = "done" /\ result.kind = "snf") => SnfAccumulatorsAgree(heap, args.M, result)

\* two passes of the loop are over, and both L and R have been changed
C1_Witness ==
    /\ pc = "snf_loop"
    /\ frame.s = 2
    /\ Val(heap, frame.L) # eye(frame.dimL)
    /\ Val(heap, frame.R) # eye(frame.dimR)

\* C2: the S that smith_normal_form_mod2(M) returns is diagonal with entries
\* in {0,1}, and its number of ones is the number of nonzero rows of the S
\* that reduced_row_echelon_form_mod2(M) returns.
C2_SnfDiagonalRank ==
    (pc = "done" /\ result.kind = "snf") =>
        /\ IsBinary(Val(heap, result.S))
        /\ IsDiagonal(Val(heap, result.S))
        /\ NumOnes(Val(heap, result.S)) =
               RrefRank(reduced_row_echelon_form_mod2(heap, args.M))

\* a matrix of rank 2 that was not diagonal has been reduced
C2_Witness ==
    /\ pc = "done" /\ result.kind = "snf"
    /\ NumOnes(Val(heap, result.S)) = 2
    /\ ~IsDiagonal(Val(heap, args.M))

\* C3: reduced_row_echelon_form_mod2(M) returns (L, S, Linv) with L.M = S and
\* L.Linv = Identity (mod 2), S in reduced row-echelon form: the leading 1 of
\* each nonzero row is the only nonzero entry of its column, and the pivot
\* columns strictly increase with the row index.
C3_RrefResult ==
    (pc = "done" /\ result.kind = "rref") =>
        /\ Prod2(Val(heap, result.L), Val(heap, args.M)) = Val(heap, result.S)
        /\ Prod2(Val(heap, result.L), Val(heap, result.Linv)) = eye(Val(heap, args.M).nr)
        /\ IsRREF(Val(heap, result.S))

\* a matrix of rank 2 that was not in reduced row-echelon form has been
\* reduced, its second pivot found below the second row
C3_Witness ==
    /\ pc = "done" /\ result.kind = "rref"
    /\ Cardinality(NonzeroRows(Val(heap, result.S))) = 2
    /\ ~IsRREF(Val(heap, args.M))
    /\ Val(heap, result.L) # eye(Val(heap, args.M).nr)

(***************************************************************************)
(* A caller of the elementary operations and the reductions.  It holds a   *)
(* matrix M, calls one operation on it and a second one on what the first  *)
(* returned, with the indices i, j, and then writes into an array it       *)
(* holds.  frame.refs are the ndarrays it holds (M first), frame.seen what *)
(* it last read from or wrote to each, frame.main the one among refs that  *)
(* the next call is made on, frame.calls the names of the calls made.      *)
(***************************************************************************)
Max(a, b) == IF a >= b THEN a ELSE b

Operations ==
    {"swap_rows", "swap_columns", "add_to_row", "add_to_column",
     "smith_normal_form_mod2", "reduced_row_echelon_form_mod2"}

InitCaller ==
    /\ \E M \in MatricesUpTo(OpsRows, OpsCols) :
           /\ heap = (0 :> M)
           /\ frame = [refs |-> <<Arg0>>, seen |-> <<M>>, main |-> 1, calls |-> << >>]
           /\ \E i, j \in 0..(Max(M.nr, M.nc) - 1) : args = [i |-> i, j |-> j]
           /\ (Max(M.nr, M.nc) > 0)
    /\ pc = "caller"
    /\ result = NoResult
    /\ store = NoStore

\* the ndarray the next call is made on, and its value
MainRef == frame.refs[frame.main]
MainVal == Val(heap, MainRef)

\* the caller binds what the call op returned (r.out, the k-th of which it
\* will hand to its next call)
Returned(op, r, k) ==
    /\ heap' = r.h
    /\ frame' = [refs  |-> frame.refs \o r.out,
                 seen  |-> frame.seen \o ValuesOf(r.h, r.out),
                 main  |-> Len(frame.refs) + k,
                 calls |-> Append(frame.calls, op)]
    /\ UNCHANGED <<args, pc, result, store>>

\* the caller may make a call: it has made fewer than two
MayCall == pc = "caller" /\ Len(frame.calls) < 2

CallSwapRows ==
    /\ MayCall
    /\ args.i < MainVal.nr /\ args.j < MainVal.nr
    /\ Returned("swap_rows", swap_rows(heap, args.i, args.j, <<MainRef>>), 1)

CallSwapColumns ==
    /\ MayCall
    /\ args.i < MainVal.nc /\ args.j < MainVal.nc
    /\ Returned("swap_columns", swap_columns(heap, args.i, args.j, <<MainRef>>), 1)

\* the list holding the ndarray r.a
Listed(r) == [h |-> r.h, out |-> <<r.a>>]

CallAddToRow ==
    /\ MayCall
    /\ args.i < MainVal.nr /\ args.j < MainVal.nr
    /\ Returned("add_to_row", Listed(add_to_row(heap, MainRef, args.i, args.j)), 1)

CallAddToColumn ==
    /\ MayCall
    /\ args.i < MainVal.nc /\ args.j < MainVal.nc
    /\ Returned("add_to_column", Listed(add_to_column(heap, MainRef, args.i, args.j)), 1)

\* L, R, S, Linv = smith_normal_form_mod2(M): the next call is made on S
CallSnf ==
    /\ MayCall
    /\ Returned("smith_normal_form_mod2", smith_normal_form_mod2(heap, MainRef), 3)

\* L, S, Linv = reduced_row_echelon_form_mod2(M): the next call is made on S
CallRref ==
    /\ MayCall
    /\ Returned("reduced_row_echelon_form_mod2",
                reduced_row_echelon_form_mod2(heap, MainRef), 2)

\* row 0 of the matrix V with its first entry changed
FirstRowFlipped(V) == [c \in 1..V.nc |-> IF c = 1 THEN 1 - Ent(V, 0, 0) ELSE Ent(V, 0, c - 1)]

\* the caller changes the entry [0, 0] of the k-th array it holds: N[0] = ...
Wrote(k) ==
    /\ Val(heap, frame.refs[k]).nr > 0 /\ Val(heap, frame.refs[k]).nc > 0
    /\ heap' = SetRow(heap, frame.refs[k], 0, FirstRowFlipped(Val(heap, frame.refs[k])))
    /\ frame' = [frame EXCEPT !.seen[k] =
                     Written(frame.seen[k], FALSE, 0, FirstRowFlipped(frame.seen[k]))]

\* after its calls the caller changes M, or what the last call returned
CallerWrites ==
    /\ pc = "caller" /\ frame.calls # << >>
    /\ \E k \in {1, frame.main} : Wrote(k)
    /\ pc' = "written"
    /\ UNCHANGED <<args, result, store>>

NextCaller ==
    \/ CallSwapRows
    \/ CallSwapColumns
    \/ CallAddToRow
    \/ CallAddToColumn
    \/ CallSnf
    \/ CallRref
    \/ CallerWrites

SpecCaller == InitCaller /\ [][NextCaller]_vars

(***************************************************************************)
(* Claims about the elementary operations, under SpecCaller.               *)
(***************************************************************************)
\* C8: no elementary operation and neither reduction changes a matrix passed
\* to it, and what it returns shares no cell with its input: whatever the
\* calls made and whichever array the caller then writes into, every array
\* the caller holds still reads what the caller last read from it or wrote
\* to it, and no two of them read the same buffer.
C8_NoAliasing ==
    /\ \A k \in 1..Len(frame.refs) : Val(heap, frame.refs[k]) = frame.seen[k]
    /\ \A k, l \in 1..Len(frame.refs) : k # l => frame.refs[k].buf # frame.refs[l].buf

\* a column swap that changed M, then a reduction of what it returned, and
\* then a write by the caller
C8_Witness ==
    /\ pc = "written"
    /\ frame.calls = <<"swap_columns", "smith_normal_form_mod2">>
    /\ frame.seen[2] # frame.seen[1]
    /\ Len(frame.refs) = 6

\* the caller has applied the same elementary operation twice
AppliedTwice ==
    /\ pc = "caller"
    /\ Len(frame.calls) = 2
    /\ frame.calls[1] = frame.calls[2]
    /\ frame.calls[1] \in {"swap_rows", "swap_columns", "add_to_row", "add_to_column"}

Zeroed(M, byRow, i) ==
    MatOf(M.nr, M.nc,
          [r \in 1..M.nr |-> [c \in 1..M.nc |->
              IF (IF byRow THEN r ELSE c) = i + 1 THEN 0 ELSE M.e[r][c]]])

Arg1 == [buf |-> 1, T |-> FALSE]

\* a log file that cannot be read, and one that holds an earlier dict
Unreadable == [readable |-> FALSE, dict |-> << >>]

Stale == [readable |-> TRUE, dict |-> ("maxdim" :> 0) @@ ("session" :> 0)]

HollowTriangle == {{1, 2}, {1, 3}, {2, 3}}

FilledTriangle == {{1, 2, 3}}

\* the pair of boundary matrices of lines 713-718 for the hypergraph h
Boundaries(h, k) ==
    <<bkMatrix(kchainbasis(h, k - 1), kchainbasis(h, k)),
      bkMatrix(kchainbasis(h, k), kchainbasis(h, k + 1))>>

\* bd[k] over at most HomRows (k-1)-chains and HomChains k-chains, bd[k + 1]
\* over at most HomCols (k+1)-chains, with bd[k] . bd[k + 1] = 0
BoundaryPairs ==
    { p \in MatricesUpTo(HomRows, HomChains) \X MatricesUpTo(HomChains, HomCols) :
        /\ p[1].nc = p[2].nr
        /\ \A i \in 1..p[1].nr : \A j \in 1..p[2].nc :
               logical_dot(p[1].e[i], Transpose(p[2]).e[j]) = 0 }

\* a list of n k-cells for the caller to have the generators interpreted
CellNames(n) == [i \in 1..n |-> <<0, i>>]

InitHom ==
    /\ \E p \in BoundaryPairs \cup {Boundaries(HollowTriangle, 1), Boundaries(FilledTriangle, 1)} :
       \E shortest \in BOOLEAN, literal \in BOOLEAN :
           /\ heap = (0 :> p[1]) @@ (1 :> p[2])
           /\ args = [k |-> 1, bd |-> <<Arg0, Arg1>>,
                      C |-> IF literal THEN CellNames(p[1].nc) ELSE << >>,
                      shortest |-> shortest, log |-> FALSE]
    /\ frame = NoFrame
    /\ pc = "hb_call"
    /\ result = NoResult
    /\ store = Unreadable

\* lines 634-635
HbReduce ==
    /\ pc = "hb_call"
    /\ frame' = hb_reduce(heap, args.bd)
    /\ pc' = "hb_reduced"
    /\ UNCHANGED <<heap, args, result, store>>

hb_projected(g) == [g |-> g, gens |-> hb_proj(g)]

\* lines 637-655
HbProject ==
    /\ pc = "hb_reduced"
    /\ frame' = hb_projected(hb_extract(frame))
    /\ pc' = "hb_projected"
    /\ UNCHANGED <<heap, args, result, store>>

\* the exception of lines 657-670 leaves homology_basis
HbRaises(b) ==
    /\ frame' = NoFrame
    /\ pc' = "done"
    /\ result' = [kind |-> "raise", exc |-> b.raise]

HbBinds(b) ==
    /\ frame' = [g |-> frame.g, gens |-> frame.gens, b |-> b]
    /\ pc' = "hb_basis"
    /\ result' = result

HbBasisOf(b) == IF Raised(b) THEN HbRaises(b) ELSE HbBinds(b)

\* lines 657-670
HbBasis ==
    /\ pc = "hb_projected"
    /\ HbBasisOf(hb_basis(args.C, args.shortest, frame.g.im2, frame.gens))
    /\ UNCHANGED <<heap, args, store>>

\* lines 671-684
HbReturn ==
    /\ pc = "hb_basis"
    /\ store' = IF args.log
                THEN DumpStore(store, hb_log_entries(args.k, frame.g, frame.b))
                ELSE store
    /\ result' = [kind |-> "basis", basis |-> frame.b.basis]
    /\ frame' = NoFrame
    /\ pc' = "done"
    /\ UNCHANGED <<heap, args>>

NextHom ==
    \/ HbReduce
    \/ HbProject
    \/ HbBasis
    \/ HbReturn

SpecHom == InitHom /\ [][NextHom]_vars

(***************************************************************************)
(* hypergraph_homology_basis (lines 687-728) as a process.                 *)
(***************************************************************************)
Hypergraphs ==
    { h \in SUBSET (SUBSET (1..MaxVertices)) : Cardinality(h) <= MaxEdges }

InitHyper ==
    /\ \E h \in Hypergraphs, k \in 0..MaxVertices, shortest \in BOOLEAN, log \in BOOLEAN :
           args = [h |-> h, k |-> k, shortest |-> shortest, log |-> log]
    /\ store \in {Unreadable, Stale}
    /\ heap = << >>
    /\ frame = NoFrame
    /\ pc = "hg_call"
    /\ result = NoResult

\* np.max of a list that is not empty
np_max(S) == CHOOSE m \in S : \A x \in S : x <= m

\* line 709, h with an edge
max_dim(h) == np_max({ Cardinality(e) : e \in h }) - 1

\* lines 711-712
HgDimension(k, md) ==
    IF k > md \/ k < 1
    THEN /\ result' = [kind |-> "wrong dim"]
         /\ pc' = "done"
         /\ frame' = frame
    ELSE /\ result' = result
         /\ pc' = "hg_dim"
         /\ frame' = [max_dim |-> md]

\* lines 709-712: np.max of the empty list raises ValueError
HgCheckDim ==
    /\ pc = "hg_call"
    /\ IF args.h = {}
       THEN /\ result' = [kind |-> "raise", exc |-> "ValueError"]
            /\ pc' = "done"
            /\ frame' = frame
       ELSE HgDimension(args.k, max_dim(args.h))
    /\ UNCHANGED <<heap, args, store>>

\* lines 713-715: C is the triple (C[k - 1], C[k], C[k + 1])
HgChains ==
    /\ pc = "hg_dim"
    /\ frame' = [max_dim |-> frame.max_dim,
                 C |-> [i \in 1..3 |-> kchainbasis(args.h, args.k - 2 + i)]]
    /\ pc' = "hg_chains"
    /\ UNCHANGED <<heap, args, result, store>>

\* lines 716-718 for the boundary matrices bds, or the exception of one
HgBind(bds) ==
    IF Raised(bds[1]) \/ Raised(bds[2])
    THEN /\ heap' = heap
         /\ frame' = NoFrame
         /\ result' = [kind |-> "raise", exc |-> "ValueError"]
         /\ pc' = "done"
    ELSE /\ heap' = (0 :> bds[1]) @@ (1 :> bds[2])
         /\ frame' = [max_dim |-> frame.max_dim, C |-> frame.C, bd |-> <<Arg0, Arg1>>]
         /\ result' = result
         /\ pc' = "hg_bd"

\* lines 716-718
HgBoundaries ==
    /\ pc = "hg_chains"
    /\ HgBind(<<bkMatrix(frame.C[1], frame.C[2]), bkMatrix(frame.C[2], frame.C[3])>>)
    /\ UNCHANGED <<args, store>>

\* lines 724-726
hg_log_entries(f, h) ==
    ("maxdim" :> f.max_dim) @@ ("kchains" :> f.C) @@ ("bd" :> ValuesOf(h, f.bd))

\* lines 719-728, up to the entry of homology_basis
HgCall ==
    /\ pc = "hg_bd"
    /\ store' = IF args.log THEN DumpStore(store, hg_log_entries(frame, heap)) ELSE store
    /\ args' = [h |-> args.h, k |-> args.k, shortest |-> args.shortest, log |-> args.log,
                bd |-> frame.bd, C |-> frame.C[2]]
    /\ frame' = NoFrame
    /\ pc' = "hb_call"
    /\ UNCHANGED <<heap, result>>

NextHyper ==
    \/ HgCheckDim
    \/ HgChains
    \/ HgBoundaries
    \/ HgCall
    \/ HbReduce
    \/ HbProject
    \/ HbBasis
    \/ HbReturn

SpecHyper == InitHyper /\ [][NextHyper]_vars

(***************************************************************************)
(* Linear algebra over GF(2) for the claims about the extraction, by       *)
(* enumeration of the vectors.                                             *)
(***************************************************************************)
Vectors(n) == [1..n -> Bit]

\* the product A . v mod 2
MatVec(A, v) ==
    [r \in 1..A.nr |-> Cardinality({ c \in 1..A.nc : A.e[r][c] = 1 /\ v[c] = 1 }) % 2]

Kernel(A) == { v \in Vectors(A.nc) : \A r \in 1..A.nr : MatVec(A, v)[r] = 0 }

\* the column space of A
Image(A) == { MatVec(A, w) : w \in Vectors(A.nc) }

Log2(c) == CHOOSE d \in 0..c : Pow2(d) = c

Rank(A) == Log2(Cardinality(Image(A)))

\* beta_k of the pair (bd[k], bd[k + 1])
Betti(bdk, bdk1) == bdk.nc - Rank(bdk) - Rank(bdk1)

\* the XOR of the vectors of gens at the positions S
XorOver(gens, S, n) == [c \in 1..n |-> Cardinality({ i \in S : gens[i][c] = 1 }) % 2]

Weight(v) == Cardinality({ c \in DOMAIN v : v[c] = 1 })

Range(list) == { list[i] : i \in DOMAIN list }

\* bs XOR every combination of the columns of im2
Candidates(im2, bs) ==
    { [c \in 1..Len(bs) |-> (bs[c] + MatVec(im2, w)[c]) % 2] : w \in Vectors(im2.nc) }

MinWeight(S) == { v \in S : \A w \in S : Weight(v) <= Weight(w) }

(***************************************************************************)
(* Claims about homology_basis, under SpecHom.                             *)
(***************************************************************************)
PlainCallDone == pc = "done" /\ ~args.shortest /\ args.C = << >>

\* C4: for boundary matrices bd[k], bd[k + 1] with bd[k] . bd[k + 1] = 0,
\* homology_basis without shortest and without C returns exactly
\* beta_k = |Ck| - rank(bd[k]) - rank(bd[k + 1]) vectors of length |Ck|, each
\* a cycle of bd[k], no nonzero XOR-combination of which lies in the column
\* space of bd[k + 1]; the hollow triangle gives the one generator (1, 1, 1)
\* and the filled triangle none.
C4_PlainBasis ==
    PlainCallDone =>
        /\ result.kind = "basis"
        /\ Len(result.basis) = Betti(heap[0], heap[1])
        /\ \A i \in 1..Len(result.basis) : result.basis[i] \in Kernel(heap[0])
        /\ \A S \in (SUBSET (1..Len(result.basis))) \ {{}} :
               XorOver(result.basis, S, heap[0].nc) \notin Image(heap[1])
        /\ <<heap[0], heap[1]>> = Boundaries(HollowTriangle, 1)
               => result.basis = <<<<1, 1, 1>>>>
        /\ <<heap[0], heap[1]>> = Boundaries(FilledTriangle, 1)
               => result.basis = << >>

\* a plain call returned a generator where neither boundary matrix is zero
C4_Witness ==
    /\ PlainCallDone
    /\ result.kind = "basis"
    /\ Len(result.basis) >= 1
    /\ Rank(heap[0]) >= 1
    /\ Rank(heap[1]) >= 1

\* C6 as stated: with shortest requested, for every generator bs and every
\* image basis im2 of rank2 >= 0 columns, the result for bs is exactly the
\* set of the minimum-weight vectors among bs XOR the combinations of the
\* columns of im2; with rank2 = 0 this is bs itself.
C6_ShortestRepresentatives ==
    /\ (pc = "hb_basis" /\ args.shortest) =>
           \A i \in 1..Len(frame.gens) :
               /\ ~frame.b.proj[i].none
               /\ Range(frame.b.proj[i].list)
                      = MinWeight(Candidates(frame.g.im2, frame.gens[i]))
    /\ (pc = "done" /\ args.shortest) => result.kind = "basis"

\* What the code does at C6: coset returns None when im2 has no column
\* (lines 583-584), and the set of the minimum-weight candidates, each once,
\* when it has one.
CosetOfTheCode ==
    (pc = "hb_basis" /\ args.shortest) =>
        \A i \in 1..Len(frame.gens) :
            IF frame.g.rank2 = 0 THEN frame.b.proj[i].none
            ELSE /\ ~frame.b.proj[i].none
                 /\ Range(frame.b.proj[i].list)
                        = MinWeight(Candidates(frame.g.im2, frame.gens[i]))
                 /\ Len(frame.b.proj[i].list) = Cardinality(Range(frame.b.proj[i].list))

\* C7 as stated, of the list a call returns: for every combination of
\* shortest and C, homology_basis returns one entry per homology generator, 0/1 vectors of length |Ck|
\* without C and lists of chains with C; with shortest and no C the list
\* holds the shortest representatives and is not empty when beta_k > 0.
C7_OneEntryPerGenerator ==
    (pc = "done" /\ result.kind = "basis") =>
        /\ Len(result.basis) = Betti(heap[0], heap[1])
        /\ (~args.shortest /\ args.C = << >>) =>
               \A i \in 1..Len(result.basis) : result.basis[i] \in Vectors(heap[0].nc)
        /\ (~args.shortest /\ args.C # << >>) =>
               \A i \in 1..Len(result.basis) : Range(result.basis[i]) \subseteq Range(args.C)
        /\ (args.shortest /\ args.C # << >>) =>
               \A i \in 1..Len(result.basis) : \A j \in 1..Len(result.basis[i]) :
                   Range(result.basis[i][j]) \subseteq Range(args.C)

\* What the code does at C7: with shortest and no C the list returned is
\* empty (line 658 is never added to), and with shortest and C the call
\* raises exactly when there is a generator and bd[k + 1] has rank 0.
ShortestOfTheCode ==
    (pc = "done" /\ args.shortest) =>
        IF args.C = << >> THEN result.kind = "basis" /\ result.basis = << >>
        ELSE (result.kind = "raise")
                 = (Rank(heap[1]) = 0 /\ Betti(heap[0], heap[1]) > 0)

(***************************************************************************)
(* Claims about hypergraph_homology_basis, under SpecHyper.                *)
(***************************************************************************)
\* the chain row is the chain col with one vertex deleted
IsFaceOf(row, col) == Len(col) = Len(row) + 1 /\ Range(row) \subseteq Range(col)

\* B is the boundary matrix from the chains cols to the chains rows
IsBoundary(B, rows, cols) ==
    /\ ~Raised(B)
    /\ B.nr = Len(rows)
    /\ B.nc = Len(cols)
    /\ \A r \in 1..Len(rows) : \A c \in 1..Len(cols) :
           B.e[r][c] = (IF IsFaceOf(rows[r], cols[c]) THEN 1 ELSE 0)

\* C, bdk and bdk1 are a chain complex in the dimensions k - 1, k, k + 1
IsChainComplex(C, bdk, bdk1) ==
    /\ IsBoundary(bdk, C[1], C[2])
    /\ IsBoundary(bdk1, C[2], C[3])
    /\ Prod2(bdk, bdk1) = zeros(Len(C[1]), Len(C[3]))

\* C5: for every set of edges and every k >= 1, the chain bases of
\* kchainbasis for the dimensions k - 1, k, k + 1 are a consistent chain
\* complex: the two calls of bkMatrix never fail with a missing face, entry
\* (r, c) is 1 exactly when row chain r is column chain c with one vertex
\* deleted, and the mod-2 product of the two boundary matrices is zero.
C5_ChainComplex ==
    /\ (pc = "hg_call" /\ args.k >= 1) =>
           IsChainComplex([i \in 1..3 |-> kchainbasis(args.h, args.k - 2 + i)],
                          Boundaries(args.h, args.k)[1], Boundaries(args.h, args.k)[2])
    /\ pc = "hg_chains" =>
           frame.C = [i \in 1..3 |-> Sorted({ Ascending(e) :
                         e \in { d \in UNION { SUBSET f : f \in args.h } :
                                     Cardinality(d) = args.k - 1 + i } })]
    /\ pc = "hg_bd" => IsChainComplex(frame.C, heap[0], heap[1])
    /\ (pc = "done" /\ args.h # {}) => ~(result.kind = "raise" /\ result.exc = "ValueError")

\* the boundary matrices of a complex with a (k+1)-chain were built
C5_Witness ==
    /\ pc = "hg_bd"
    /\ Cardinality(args.h) >= 2
    /\ Len(frame.C[3]) >= 1
    /\ Len(frame.C[2]) >= 3

\* k is outside of, or within, the dimensions of the hypergraph h
DimensionInvalid(h, k) == k < 1 \/ (h # {} /\ \A e \in h : k > Cardinality(e) - 1)

DimensionValid(h, k) == k >= 1 /\ \E e \in h : k <= Cardinality(e) - 1

\* C10 as stated: hypergraph_homology_basis(h, k) reports an invalid
\* dimension for every k < 1 or k > (largest edge size - 1), before any
\* chain basis, boundary matrix or reduction and with the external store
\* unchanged; for every k in [1, largest edge size - 1] it does not report
\* it and proceeds to the extraction.
C10_InvalidDimension ==
    /\ [](DimensionValid(args.h, args.k) => result.kind # "wrong dim")
    /\ [][pc = "hg_call" =>
            IF DimensionInvalid(args.h, args.k)
            THEN /\ result' = [kind |-> "wrong dim"]
                 /\ pc' = "done"
                 /\ UNCHANGED <<heap, frame, store>>
            ELSE DimensionValid(args.h, args.k) => (pc' = "hg_dim" /\ result' = result)]_vars

\* What the code does at C10: for a hypergraph with an edge the statement
\* holds; without an edge line 709 raises ValueError for every k.
DimensionCheckOfTheCode ==
    /\ [](DimensionValid(args.h, args.k) => result.kind # "wrong dim")
    /\ [][pc = "hg_call" =>
            IF args.h = {}
            THEN /\ result' = [kind |-> "raise", exc |-> "ValueError"]
                 /\ pc' = "done"
                 /\ UNCHANGED <<heap, frame, store>>
            ELSE IF DimensionInvalid(args.h, args.k)
            THEN /\ result' = [kind |-> "wrong dim"]
                 /\ pc' = "done"
                 /\ UNCHANGED <<heap, frame, store>>
            ELSE pc' = "hg_dim" /\ result' = result]_vars

(***************************************************************************)
(* _get_next_pivot (lines 414-446) called on its own: s2 is None (left     *)
(* out by the caller) or a column given explicitly.                        *)
(***************************************************************************)
InitPivot ==
    /\ \E M \in MatricesUpTo(MaxRows, MaxCols) :
       \E s1 \in 0..M.nr, s2 \in {None} \cup (0..M.nc) :
           /\ heap = (0 :> M)
           /\ args = [M |-> Arg0, s1 |-> s1, s2 |-> s2]
    /\ frame = NoFrame
    /\ pc = "pivot_call"
    /\ result = NoResult
    /\ store = NoStore

\* lines 438-446
GetNextPivot ==
    /\ pc = "pivot_call"
    /\ result' = [kind |-> "pivot",
                  pivot |-> _get_next_pivot(Val(heap, args.M), args.s1, args.s2)]
    /\ pc' = "done"
    /\ UNCHANGED <<heap, args, frame, store>>

NextPivot == GetNextPivot

SpecPivot == InitPivot /\ [][NextPivot]_vars

(***************************************************************************)
(* Claims about the pivot search, under SpecPivot.                         *)
(***************************************************************************)
\* the positions of the ones of A in the rows from r0 and the columns from c0
OnesFrom(A, r0, c0) ==
    { p \in (r0..(A.nr - 1)) \X (c0..(A.nc - 1)) : Ent(A, p[1], p[2]) = 1 }

\* pivot is the first member of ones, smallest column, then smallest row;
\* no pivot when ones is empty
IsFirstOf(pivot, ones) ==
    IF ones = {} THEN pivot = << >>
    ELSE /\ pivot # << >>
         /\ pivot \in ones
         /\ \A q \in ones : pivot[2] < q[2] \/ (pivot[2] = q[2] /\ pivot[1] <= q[1])

\* C11 as stated: for every 0/1 matrix M, every starting row s1 and every
\* explicitly given starting column s2 (s2 = 0 with s1 > 0 included),
\* _get_next_pivot(M, s1, s2) returns the first position holding a 1 in
\* column-major order over the columns c >= s2 and the rows r >= s1, and
\* no pivot exactly when that submatrix is entirely zero.
C11_FirstPivotFromS2 ==
    (pc = "done" /\ args.s2 # None) =>
        IsFirstOf(result.pivot, OnesFrom(heap[0], args.s1, args.s2))

\* What the code does at C11: an s2 of 0 is taken for a missing s2 (line
\* 440), so the search starts at column s1; any other s2 is used as given.
PivotOfTheCode ==
    pc = "done" =>
        IsFirstOf(result.pivot,
                  OnesFrom(heap[0], args.s1,
                           IF args.s2 \in {None, 0} THEN args.s1 ELSE args.s2))

====
